---- MODULE Spec2Model ----
(***************************************************************************)
(* The NYC yellow-taxi dashboard of src/app.py as a state machine.         *)
(*                                                                         *)
(* A Streamlit script is re-executed top to bottom on every interaction.   *)
(* One run is modelled as a walk of the program counter pc through the     *)
(* script: load_data, precompute_summaries, the sidebar widgets, the two   *)
(* st.stop() guards, the headline metrics and the five charts.  The two    *)
(* @st.cache_data caches live across runs.  The files on disk and the      *)
(* server process are the environment.                                     *)
(*                                                                         *)
(* Representation of values                                                *)
(*   - a polars column value is nullable: <<>> is null, <<v>> is v;        *)
(*   - a timestamp is a number of ticks since 2024-01-01 00:00:00          *)
(*     (a Monday), TicksPerSecond ticks to the second;                     *)
(*   - trip_distance is held in eighths of a mile (0.625 mi = 5 eighths);  *)
(*   - fare_amount is held in whole dollars;                               *)
(*   - trip_duration_minutes is held in sixtieths of a minute;             *)
(*   - a Float64 is a number with MantBits significant bits, and every     *)
(*     floating-point addition rounds to nearest, ties to even.            *)
(***************************************************************************)
EXTENDS Integers, Sequences, FiniteSets, TLC

VARIABLES
    trip_file,        \* rows of data/raw/yellow_tripdata_2024-01.parquet
    zone_file,        \* rows of data/raw/taxi_zone_lookup.csv
    load_cache,       \* st.cache_data entry of load_data: <<>> or <<table>>
    summaries_cache,  \* st.cache_data entry of precompute_summaries
    raw_df,           \* load_data's local df as read by read_parquet
    df_zones,         \* load_data's local df_zones as read by read_csv
    df,               \* the enriched table of this run
    summaries,        \* the three summary tables of this run
    start_date, end_date, hour_range, payment_types,
    filtered_metrics, filtered_zones, filtered_distance,
    total_trips, total_revenue, avg_fare, avg_distance, avg_duration,
    top_zones, hourly_fare, distance_raw, payment_counts, heatmap_data,
    page,             \* what this run has put on the page, in order
    pc                \* position of the script

disk    == <<trip_file, zone_file>>
caches  == <<load_cache, summaries_cache, raw_df, df_zones>>
loaded  == <<df, summaries>>
widgets == <<start_date, end_date, hour_range, payment_types>>
filtered == <<filtered_metrics, filtered_zones, filtered_distance>>
metrics == <<total_trips, total_revenue, avg_fare, avg_distance, avg_duration>>
charts  == <<top_zones, hourly_fare, distance_raw, payment_counts, heatmap_data>>
vars    == <<disk, caches, loaded, widgets, filtered, metrics, charts, page, pc>>

(***************************************************************************)
(* Nullable values and polars' three-valued comparisons.                   *)
(***************************************************************************)
Null == <<>>
Some(v) == <<v>>
IsNull(x) == x = <<>>
Val(x) == x[1]

Lift(a, b, holds) == IF IsNull(a) \/ IsNull(b) THEN Null ELSE Some(holds)
Gt(a, b) == Lift(a, b, ~IsNull(a) /\ ~IsNull(b) /\ Val(a) > Val(b))
Ge(a, b) == Lift(a, b, ~IsNull(a) /\ ~IsNull(b) /\ Val(a) >= Val(b))
Le(a, b) == Lift(a, b, ~IsNull(a) /\ ~IsNull(b) /\ Val(a) <= Val(b))
IsIn(a, values) == IF IsNull(a) THEN Null ELSE Some(a \in values)
And3(a, b) ==
    IF a = Some(FALSE) \/ b = Some(FALSE) THEN Some(FALSE)
    ELSE IF IsNull(a) \/ IsNull(b) THEN Null
    ELSE Some(TRUE)

\* DataFrame.filter keeps the rows whose predicate is true (not false, not null)
Keeps(p) == p = Some(TRUE)

(***************************************************************************)
(* Time.                                                                   *)
(***************************************************************************)
TicksPerSecond == 2
TicksPerHour == 3600 * TicksPerSecond
TicksPerDay == 24 * TicksPerHour

total_seconds(ticks) == ticks \div TicksPerSecond
hour(t) == (t \div TicksPerHour) % 24
date(t) == (t \div TicksPerDay) + 1
weekday(t) == ((date(t) - 1) % 7) + 1

(***************************************************************************)
(* Float64 arithmetic.                                                     *)
(***************************************************************************)
MantBits == 9

RECURSIVE Pow2(_)
Pow2(n) == IF n = 0 THEN 1 ELSE 2 * Pow2(n - 1)

RECURSIVE Ulp(_, _)
Ulp(x, u) == IF x < Pow2(MantBits) * u THEN u ELSE Ulp(x, 2 * u)

Round(x) ==
    LET u == Ulp(x, 1)
        lo == (x \div u) * u
        rest == x - lo
    IN  IF 2 * rest < u THEN lo
        ELSE IF 2 * rest > u THEN lo + u
        ELSE IF (x \div u) % 2 = 0 THEN lo ELSE lo + u

FAdd(a, b) == Round(a + b)

\* the sum of a Float64 column: the values are added one after the other,
\* s[1] first.  FSumRange(acc, s, lo, hi) is ((acc + s[lo]) + ...) + s[hi];
\* the range is halved, and the left half evaluated before the right half
\* is entered, only to keep the evaluation shallow.
RECURSIVE FSumRange(_, _, _, _)
FSumRange(acc, s, lo, hi) ==
    IF lo > hi THEN acc
    ELSE IF lo = hi THEN FAdd(acc, s[lo])
    ELSE LET mid == (lo + hi) \div 2
             left == FSumRange(acc, s, lo, mid)
         IN  IF left \in Int THEN FSumRange(left, s, mid + 1, hi) ELSE left
FSum(s) == FSumRange(0, s, 1, Len(s))

\* the sum of an integer column
RECURSIVE ISumTo(_, _)
ISumTo(s, n) == IF n = 0 THEN 0 ELSE ISumTo(s, n - 1) + s[n]
ISum(s) == ISumTo(s, Len(s))

RECURSIVE Concat(_)
Concat(ss) == IF ss = <<>> THEN <<>> ELSE Head(ss) \o Concat(Tail(ss))

RECURSIVE Perms(_)
Perms(S) == IF S = {} THEN {<<>>}
            ELSE UNION {{<<x>> \o p : p \in Perms(S \ {x})} : x \in S}

\* the non-null values of a column, in row order (sum() skips nulls)
Column(tbl, c) ==
    LET present == SelectSeq(tbl, LAMBDA r : ~IsNull(r[c]))
    IN  [i \in DOMAIN present |-> Val(present[i][c])]

\* every ordering of S that is ascending in key; equal keys in any order
RECURSIVE SortedByKey(_, _)
SortedByKey(S, key) ==
    IF S = {} THEN {<<>>}
    ELSE LET firsts == {x \in S : \A y \in S : key[x] <= key[y]}
         IN  UNION {{<<x>> \o rest : rest \in SortedByKey(S \ {x}, key)} :
                    x \in firsts}

RECURSIVE SumOver(_, _)
SumOver(S, f) ==
    IF S = {} THEN 0
    ELSE LET x == CHOOSE y \in S : TRUE IN f[x] + SumOver(S \ {x}, f)

Min(a, b) == IF a <= b THEN a ELSE b

(***************************************************************************)
(* load_data                                                               *)
(***************************************************************************)
FareMax == 500

drop_nulls(tbl) ==
    SelectSeq(tbl, LAMBDA r :
        /\ ~IsNull(r.tpep_pickup_datetime)
        /\ ~IsNull(r.tpep_dropoff_datetime)
        /\ ~IsNull(r.PULocationID)
        /\ ~IsNull(r.DOLocationID)
        /\ ~IsNull(r.fare_amount))

cleaning_predicate(r) ==
    And3(And3(And3(Gt(r.fare_amount, Some(0)),
                   Le(r.fare_amount, Some(FareMax))),
              Gt(r.trip_distance, Some(0))),
         Gt(r.tpep_dropoff_datetime, r.tpep_pickup_datetime))

cleaning(tbl) ==
    SelectSeq(drop_nulls(tbl), LAMBDA r : Keeps(cleaning_predicate(r)))

feature_engineering(tbl) ==
    [i \in DOMAIN tbl |->
        LET r == tbl[i]
            pu == Val(r.tpep_pickup_datetime)
            do == Val(r.tpep_dropoff_datetime)
        IN  [ PULocationID |-> r.PULocationID,
              DOLocationID |-> r.DOLocationID,
              trip_distance |-> r.trip_distance,
              fare_amount |-> r.fare_amount,
              payment_type |-> r.payment_type,
              trip_duration_minutes |-> Some(total_seconds(do - pu)),
              pickup_hour |-> Some(hour(pu)),
              pickup_day_of_week |-> Some(weekday(pu)),
              pickup_date |-> Some(date(pu)) ]]

\* as joined_zones, for an inner join: an id absent from the lookup attaches
\* nothing
joined_zones_inner(id, lookup) ==
    LET m == SelectSeq(lookup, LAMBDA z :
                 ~IsNull(z.LocationID) /\ ~IsNull(id) /\ z.LocationID = id)
    IN  [k \in DOMAIN m |-> m[k].Zone]

\* the zone names a left join attaches to one location id: one per matching
\* lookup row, in lookup order, or a single null when none matches
joined_zones(id, lookup) ==
    LET m == SelectSeq(lookup, LAMBDA z :
                 ~IsNull(z.LocationID) /\ ~IsNull(id) /\ z.LocationID = id)
    IN  IF m = <<>> THEN <<Null>> ELSE [k \in DOMAIN m |-> m[k].Zone]

zone_joins(tbl, lookup) ==
    Concat([i \in DOMAIN tbl |->
        LET r == tbl[i]
            pus == joined_zones(r.PULocationID, lookup)
            dos == joined_zones(r.DOLocationID, lookup)
        IN  Concat([a \in DOMAIN pus |->
                [b \in DOMAIN dos |->
                    [ trip_distance |-> r.trip_distance,
                      fare_amount |-> r.fare_amount,
                      payment_type |-> r.payment_type,
                      trip_duration_minutes |-> r.trip_duration_minutes,
                      pickup_hour |-> r.pickup_hour,
                      pickup_day_of_week |-> r.pickup_day_of_week,
                      pickup_date |-> r.pickup_date,
                      PU_Zone |-> pus[a],
                      DO_Zone |-> dos[b] ]]])])

load_data(trips, lookup) ==
    zone_joins(feature_engineering(cleaning(trips)), lookup)

(***************************************************************************)
(* precompute_summaries                                                    *)
(***************************************************************************)
MilesMax == 25
EighthsPerMile == 8
BinWidth == 5

Rows(tbl) == {tbl[i] : i \in DOMAIN tbl}

metrics_summary(tbl) ==
    LET key(r) == [ pickup_date |-> r.pickup_date,
                    pickup_hour |-> r.pickup_hour,
                    pickup_day_of_week |-> r.pickup_day_of_week,
                    payment_type |-> r.payment_type ]
    IN  { LET g == SelectSeq(tbl, LAMBDA r : key(r) = k)
          IN  [ pickup_date |-> k.pickup_date,
                pickup_hour |-> k.pickup_hour,
                pickup_day_of_week |-> k.pickup_day_of_week,
                payment_type |-> k.payment_type,
                trip_count |-> Len(g),
                fare_sum |-> FSum(Column(g, "fare_amount")),
                distance_sum |-> FSum(Column(g, "trip_distance")),
                duration_sum |-> FSum(Column(g, "trip_duration_minutes")) ]
          : k \in {key(r) : r \in Rows(tbl)} }

\* as zones_summary, leaving out the trips whose pickup zone is null
zones_summary_named(tbl) ==
    LET named == SelectSeq(tbl, LAMBDA r : ~IsNull(r.PU_Zone))
        key(r) == [ pickup_date |-> r.pickup_date,
                    pickup_hour |-> r.pickup_hour,
                    payment_type |-> r.payment_type,
                    PU_Zone |-> r.PU_Zone ]
    IN  { [ pickup_date |-> k.pickup_date,
            pickup_hour |-> k.pickup_hour,
            payment_type |-> k.payment_type,
            PU_Zone |-> k.PU_Zone,
            Trips |-> Len(SelectSeq(named, LAMBDA r : key(r) = k)) ]
          : k \in {key(r) : r \in Rows(named)} }

zones_summary(tbl) ==
    LET key(r) == [ pickup_date |-> r.pickup_date,
                    pickup_hour |-> r.pickup_hour,
                    payment_type |-> r.payment_type,
                    PU_Zone |-> r.PU_Zone ]
    IN  { [ pickup_date |-> k.pickup_date,
            pickup_hour |-> k.pickup_hour,
            payment_type |-> k.payment_type,
            PU_Zone |-> k.PU_Zone,
            Trips |-> Len(SelectSeq(tbl, LAMBDA r : key(r) = k)) ]
          : k \in {key(r) : r \in Rows(tbl)} }

\* as distance_is_between, closed below and open above
distance_is_between_open(r) ==
    And3(Ge(r.trip_distance, Some(0)),
         And3(Le(r.trip_distance, Some(MilesMax * EighthsPerMile)),
              Some(r.trip_distance # Some(MilesMax * EighthsPerMile))))

distance_is_between(r) ==
    And3(Ge(r.trip_distance, Some(0)),
         Le(r.trip_distance, Some(MilesMax * EighthsPerMile)))

dist_bin(r) == Val(r.trip_distance) \div BinWidth

distance_summary(tbl) ==
    LET binned == SelectSeq(tbl, LAMBDA r : Keeps(distance_is_between(r)))
        key(r) == [ pickup_date |-> r.pickup_date,
                    pickup_hour |-> r.pickup_hour,
                    payment_type |-> r.payment_type,
                    dist_bin |-> dist_bin(r) ]
    IN  { [ pickup_date |-> k.pickup_date,
            pickup_hour |-> k.pickup_hour,
            payment_type |-> k.payment_type,
            dist_bin |-> k.dist_bin,
            count |-> Len(SelectSeq(binned, LAMBDA r : key(r) = k)) ]
          : k \in {key(r) : r \in Rows(binned)} }

precompute_summaries(tbl) ==
    [ metrics |-> metrics_summary(tbl),
      zones |-> zones_summary(tbl),
      distance |-> distance_summary(tbl) ]

(***************************************************************************)
(* The sidebar and the filter                                              *)
(***************************************************************************)
min_date == 1
max_date == 31
DateChoices == {d \in {min_date, min_date + 1} : d <= max_date}
HourChoices == {8, 9}
HourRanges == {p \in HourChoices \X HourChoices : p[1] <= p[2]}

payment_options(tbl) == {r.payment_type : r \in Rows(tbl)}

\* the predicate of filter_summary and of distance_raw, over any row that
\* has pickup_date, pickup_hour and payment_type
filter_predicate(r) ==
    And3(And3(And3(And3(Ge(r.pickup_date, Some(start_date)),
                        Le(r.pickup_date, Some(end_date))),
                   Ge(r.pickup_hour, Some(hour_range[1]))),
              Le(r.pickup_hour, Some(hour_range[2]))),
         IsIn(r.payment_type, payment_types))

\* as filter_summary, with the end date taken as exclusive
filter_summary_exclusive(tbl) ==
    {g \in tbl : Keeps(filter_predicate(g)) /\ Val(g.pickup_date) < end_date}

filter_summary(tbl) == {g \in tbl : Keeps(filter_predicate(g))}

(***************************************************************************)
(* Charts                                                                  *)
(***************************************************************************)
TopN == 10
weekdays == <<"Monday", "Tuesday", "Wednesday", "Thursday", "Friday",
              "Saturday", "Sunday">>

Quotient(a, b) == [num |-> a, den |-> b]
Unset == [num |-> 0, den |-> 1]

zone_totals(fz) ==
    { [ PU_Zone |-> z,
        Trips |-> SumOver({g \in fz : g.PU_Zone = z},
                          [g \in fz |-> g.Trips]) ]
      : z \in {g.PU_Zone : g \in fz} }

\* as top_k, keeping any k rows
top_k_any(k, S) ==
    {T \in SUBSET S : Cardinality(T) = Min(k, Cardinality(S))}

\* top_k keeps k rows none of which has fewer trips than a row left out;
\* among rows with equal trips the choice is unspecified
top_k(k, S) ==
    { T \in SUBSET S :
        /\ Cardinality(T) = Min(k, Cardinality(S))
        /\ \A a \in T : \A b \in S \ T : a.Trips >= b.Trips }

\* sort("Trips", descending=True): equal trips come out in any order
sort_descending(S) == SortedByKey(S, [g \in S |-> 0 - g.Trips])

top_zones_outcomes(fz) ==
    UNION {sort_descending(T) : T \in top_k(TopN, zone_totals(fz))}

hourly_fare_outcomes(fm) ==
    LET hours == {g.pickup_hour : g \in fm}
        row(h, order) ==
            LET g == SelectSeq(order, LAMBDA m : m.pickup_hour = h)
                fare == FSum([i \in DOMAIN g |-> g[i].fare_sum])
                trips == ISum([i \in DOMAIN g |-> g[i].trip_count])
            IN  [ pickup_hour |-> h, fare_sum |-> fare, trip_count |-> trips,
                  avg_fare |-> Quotient(fare, trips) ]
    IN  UNION { SortedByKey({row(h, order) : h \in hours},
                            [x \in {row(h, order) : h \in hours}
                                |-> Val(x.pickup_hour)])
                : order \in Perms(fm) }

distance_filter(tbl) ==
    SelectSeq(tbl, LAMBDA r :
        Keeps(And3(filter_predicate(r),
                   Le(r.trip_distance, Some(MilesMax * EighthsPerMile)))))

payment_breakdown(fm) ==
    { [ payment_type |-> p,
        Count |-> SumOver({g \in fm : g.payment_type = p},
                          [g \in fm |-> g.trip_count]) ]
      : p \in {g.payment_type : g \in fm} }

heatmap_outcomes(fm) ==
    LET keys == {<<g.pickup_day_of_week, g.pickup_hour>> : g \in fm}
        cells == { [ pickup_day_of_week |-> weekdays[Val(k[1])],
                     pickup_hour |-> k[2],
                     Trips |-> SumOver({g \in fm : g.pickup_day_of_week = k[1]
                                                   /\ g.pickup_hour = k[2]},
                                       [g \in fm |-> g.trip_count]) ]
                   : k \in keys }
    IN  SortedByKey(cells, [c \in cells |-> Val(c.pickup_hour)])

(***************************************************************************)
(* The script, one run after another                                       *)
(***************************************************************************)
Finished == {"idle", "stopped_payment", "stopped_empty", "done",
             "ZeroDivisionError"}

NoSummaries == [metrics |-> {}, zones |-> {}, distance |-> {}]

\* as load_data_cached, for a load_data without @st.cache_data
load_data_uncached == FALSE

\* a cached call runs the function only when the cache has no entry for its
\* key.  load_data's key is the two path strings, which never change;
\* precompute_summaries' only parameter, _df, is left out of its key.
load_data_cached == ~IsNull(load_cache)
summaries_cached == ~IsNull(summaries_cache)

NothingFiltered ==
    /\ filtered_metrics = {} /\ filtered_zones = {} /\ filtered_distance = {}

NothingComputed ==
    /\ total_trips = 0 /\ total_revenue = 0
    /\ avg_fare = Unset /\ avg_distance = Unset /\ avg_duration = Unset
    /\ top_zones = <<>> /\ hourly_fare = <<>> /\ distance_raw = <<>>
    /\ payment_counts = {} /\ heatmap_data = <<>>

NoSelection ==
    /\ start_date = 0 /\ end_date = 0 /\ hour_range = <<0, 0>>
    /\ payment_types = {}

\* a run starts with nothing selected, filtered, computed or shown
ResetRun ==
    /\ start_date' = 0 /\ end_date' = 0 /\ hour_range' = <<0, 0>>
    /\ payment_types' = {}
    /\ filtered_metrics' = {} /\ filtered_zones' = {}
    /\ filtered_distance' = {}
    /\ total_trips' = 0 /\ total_revenue' = 0
    /\ avg_fare' = Unset /\ avg_distance' = Unset /\ avg_duration' = Unset
    /\ top_zones' = <<>> /\ hourly_fare' = <<>> /\ distance_raw' = <<>>
    /\ payment_counts' = {} /\ heatmap_data' = <<>>
    /\ page' = <<>>

\* line 128: df = load_data(trip_file, zone_file), at the start of a run
LoadData ==
    /\ pc \in Finished
    /\ pc' = "precompute_summaries"
    /\ IF load_data_cached
       THEN /\ df' = Val(load_cache)
            /\ UNCHANGED <<load_cache, raw_df, df_zones>>
       ELSE /\ raw_df' = trip_file
            /\ df_zones' = zone_file
            /\ df' = load_data(trip_file, zone_file)
            /\ load_cache' = Some(df')
    /\ summaries' = NoSummaries
    /\ ResetRun
    /\ UNCHANGED <<disk, summaries_cache>>

\* line 129: summaries = precompute_summaries(df)
PrecomputeSummaries ==
    /\ pc = "precompute_summaries"
    /\ pc' = "sidebar"
    /\ IF summaries_cached
       THEN /\ summaries' = Val(summaries_cache)
            /\ UNCHANGED summaries_cache
       ELSE /\ summaries' = precompute_summaries(df)
            /\ summaries_cache' = Some(summaries')
    /\ UNCHANGED <<disk, load_cache, raw_df, df_zones, df, widgets, filtered,
                   metrics, charts, page>>

\* lines 137-142: the four widgets return the user's selection
Sidebar ==
    /\ pc = "sidebar"
    /\ pc' = "check_payment_types"
    /\ \E sd \in DateChoices, ed \in DateChoices, hr \in HourRanges,
          pts \in SUBSET payment_options(df) :
            /\ start_date' = sd
            /\ end_date' = ed
            /\ hour_range' = hr
            /\ payment_types' = pts
    /\ UNCHANGED <<disk, caches, loaded, filtered, metrics, charts, page>>

\* as not_payment_types, for a script without the payment-type guard
payment_guard_missing == FALSE

not_payment_types == payment_types = {}

\* lines 144-146
CheckPaymentTypes ==
    /\ pc = "check_payment_types"
    /\ IF not_payment_types
       THEN /\ page' = Append(page, "Please select at least one payment type.")
            /\ pc' = "stopped_payment"
       ELSE /\ pc' = "filter_summary"
            /\ UNCHANGED page
    /\ UNCHANGED <<disk, caches, loaded, widgets, filtered, metrics, charts>>

\* lines 158-160
FilterSummaries ==
    /\ pc = "filter_summary"
    /\ pc' = "check_empty"
    /\ filtered_metrics' = filter_summary(summaries.metrics)
    /\ filtered_zones' = filter_summary(summaries.zones)
    /\ filtered_distance' = filter_summary(summaries.distance)
    /\ UNCHANGED <<disk, caches, loaded, widgets, metrics, charts, page>>

\* as is_empty, for a script that never takes the empty branch
is_empty_unchecked(tbl) == FALSE

is_empty(tbl) == tbl = {}

\* lines 162-164
CheckEmpty ==
    /\ pc = "check_empty"
    /\ IF is_empty(filtered_metrics)
       THEN /\ page' = Append(page, "No data for the selected filters.")
            /\ pc' = "stopped_empty"
       ELSE /\ pc' = "key_metrics"
            /\ UNCHANGED page
    /\ UNCHANGED <<disk, caches, loaded, widgets, filtered, metrics, charts>>

\* lines 166-180; the rows of filtered_metrics are summed in the order the
\* group_by happened to emit them
KeyMetrics ==
    /\ pc = "key_metrics"
    /\ \E order \in Perms(filtered_metrics) :
        LET trips == ISum([i \in DOMAIN order |-> order[i].trip_count])
            fare == FSum([i \in DOMAIN order |-> order[i].fare_sum])
            distance == FSum([i \in DOMAIN order |-> order[i].distance_sum])
            duration == FSum([i \in DOMAIN order |-> order[i].duration_sum])
        IN  /\ total_trips' = trips
            /\ total_revenue' = fare
            /\ IF trips = 0
               THEN /\ pc' = "ZeroDivisionError"
                    /\ UNCHANGED <<avg_fare, avg_distance, avg_duration, page>>
               ELSE /\ avg_fare' = Quotient(fare, trips)
                    /\ avg_distance' = Quotient(distance, trips)
                    /\ avg_duration' = Quotient(duration, trips)
                    /\ page' = Append(page, "Key Metrics")
                    /\ pc' = "top_zones"
    /\ UNCHANGED <<disk, caches, loaded, widgets, filtered, charts>>

\* lines 184-197
TopZones ==
    /\ pc = "top_zones"
    /\ pc' = "hourly_fare"
    /\ top_zones' \in top_zones_outcomes(filtered_zones)
    /\ page' = Append(page, "Top 10 Pickup Zones by Trip Count")
    /\ UNCHANGED <<disk, caches, loaded, widgets, filtered, metrics,
                   hourly_fare, distance_raw, payment_counts, heatmap_data>>

\* lines 204-218
HourlyFare ==
    /\ pc = "hourly_fare"
    /\ pc' = "distance_raw"
    /\ hourly_fare' \in hourly_fare_outcomes(filtered_metrics)
    /\ page' = Append(page, "Average Fare by Hour of Day")
    /\ UNCHANGED <<disk, caches, loaded, widgets, filtered, metrics,
                   top_zones, distance_raw, payment_counts, heatmap_data>>

\* lines 224-241
DistanceDistribution ==
    /\ pc = "distance_raw"
    /\ pc' = "payment_counts"
    /\ distance_raw' = distance_filter(df)
    /\ page' = Append(page, "Trip Distance Distribution (0-25 miles)")
    /\ UNCHANGED <<disk, caches, loaded, widgets, filtered, metrics,
                   top_zones, hourly_fare, payment_counts, heatmap_data>>

\* lines 247-258
PaymentBreakdown ==
    /\ pc = "payment_counts"
    /\ pc' = "heatmap_data"
    /\ payment_counts' = payment_breakdown(filtered_metrics)
    /\ page' = Append(page, "Payment Type Breakdown")
    /\ UNCHANGED <<disk, caches, loaded, widgets, filtered, metrics,
                   top_zones, hourly_fare, distance_raw, heatmap_data>>

\* lines 264-285
Heatmap ==
    /\ pc = "heatmap_data"
    /\ pc' = "done"
    /\ heatmap_data' \in heatmap_outcomes(filtered_metrics)
    /\ page' = Append(page, "Trips by Day of Week and Hour")
    /\ UNCHANGED <<disk, caches, loaded, widgets, filtered, metrics,
                   top_zones, hourly_fare, distance_raw, payment_counts>>

(***************************************************************************)
(* The environment                                                         *)
(***************************************************************************)
At(day, hr) == ((day - 1) * 24 + hr) * TicksPerHour

Trip(pu, do, PU, DO, dist, fare, pay) ==
    [ tpep_pickup_datetime |-> pu, tpep_dropoff_datetime |-> do,
      PULocationID |-> PU, DOLocationID |-> DO,
      trip_distance |-> dist, fare_amount |-> fare, payment_type |-> pay ]

\* a trip that passes the cleaning rules
Ride(day, hr, seconds, PU, dist, fare, pay) ==
    Trip(Some(At(day, hr)), Some(At(day, hr) + seconds * TicksPerSecond),
         Some(PU), Some(2), Some(dist), Some(fare), pay)

Replacements == { << Ride(1, 8, 120, 3, 16, 20, Some(1)) >> }

\* the trip file is replaced on disk between two runs
ChangeDataset ==
    /\ pc \in Finished
    /\ trip_file' \in Replacements \ {trip_file}
    /\ UNCHANGED <<zone_file, caches, loaded, widgets, filtered, metrics,
                   charts, page, pc>>

\* the server process is restarted (or "Clear cache" is pressed): both
\* in-memory caches are emptied together
Restart ==
    /\ pc \in Finished \ {"idle"}
    /\ pc' = "idle"
    /\ load_cache' = Null /\ summaries_cache' = Null
    /\ raw_df' = <<>> /\ df_zones' = <<>>
    /\ df' = <<>> /\ summaries' = NoSummaries
    /\ ResetRun
    /\ UNCHANGED disk

Next ==
    \/ LoadData
    \/ PrecomputeSummaries
    \/ Sidebar
    \/ CheckPaymentTypes
    \/ FilterSummaries
    \/ CheckEmpty
    \/ KeyMetrics
    \/ TopZones
    \/ HourlyFare
    \/ DistanceDistribution
    \/ PaymentBreakdown
    \/ Heatmap
    \/ ChangeDataset
    \/ Restart

(***************************************************************************)
(* Input files                                                             *)
(***************************************************************************)
ZoneNames == <<"A", "B", "C", "D", "E", "F", "G", "H", "I", "J", "K", "L">>

\* location ids 1..13; ids 12 and 13 carry the same zone name, as several
\* ids of the real lookup do; ids above 13 are not in the lookup
ZoneLookup ==
    [id \in 1..(Len(ZoneNames) + 1) |->
        [ LocationID |-> Some(id),
          Zone |-> Some(ZoneNames[Min(id, Len(ZoneNames))]) ]]

\* the rows of master at the positions in S, in file order
Pick(master, S) ==
    LET idx == CHOOSE q \in SortedByKey(S, [i \in S |-> i]) : TRUE
    IN  [k \in DOMAIN idx |-> master[idx[k]]]

Tables(master, n) ==
    {Pick(master, S) : S \in {T \in SUBSET DOMAIN master : Cardinality(T) <= n}}

MaxRows == 4

TripMaster ==
    << Ride(1, 8, 600, 1, 200, 500, Some(1)),
       Ride(1, 8, 300, 2, 240, 13, Some(2)),
       Ride(1, 8, 60, 1, 3, 1, Some(2)),
       Ride(1, 9, 90, 2, 5, 13, Some(1)),
       Ride(2, 8, 30, 14, 199, 1, Some(1)),
       Ride(2, 9, 45, 1, 8, 500, Null),
       Ride(1, 8, 60, 1, 8, 0, Some(1)) >>

InitRun ==
    /\ load_cache = Null /\ summaries_cache = Null
    /\ raw_df = <<>> /\ df_zones = <<>>
    /\ df = <<>> /\ summaries = NoSummaries
    /\ NoSelection /\ NothingFiltered /\ NothingComputed
    /\ page = <<>>
    /\ pc = "idle"

Init ==
    /\ trip_file \in Tables(TripMaster, MaxRows)
    /\ zone_file = ZoneLookup
    /\ InitRun

Spec == Init /\ [][Next]_vars

MaxRawRows == 2

\* one well-formed trip, then trips that each break one cleaning rule or sit
\* on its boundary
RawMaster ==
    LET t == At(1, 8)
        ok == Ride(1, 8, 600, 1, 8, 10, Some(1))
    IN  << ok,
           [ok EXCEPT !.tpep_pickup_datetime = Null],
           [ok EXCEPT !.tpep_dropoff_datetime = Null],
           [ok EXCEPT !.PULocationID = Null],
           [ok EXCEPT !.DOLocationID = Null],
           [ok EXCEPT !.fare_amount = Null],
           [ok EXCEPT !.fare_amount = Some(0)],
           [ok EXCEPT !.fare_amount = Some(FareMax)],
           [ok EXCEPT !.fare_amount = Some(FareMax + 1)],
           [ok EXCEPT !.trip_distance = Null],
           [ok EXCEPT !.trip_distance = Some(0)],
           [ok EXCEPT !.tpep_dropoff_datetime = Some(t)],
           [ok EXCEPT !.tpep_dropoff_datetime = Some(t + 1)],
           [ok EXCEPT !.tpep_dropoff_datetime = Some(t + TicksPerSecond)],
           [ok EXCEPT !.tpep_pickup_datetime = Some(t + 1)],
           [ok EXCEPT !.tpep_pickup_datetime = Some(At(1, 9))],
           [ok EXCEPT !.PULocationID = Some(Len(ZoneLookup) + 1)],
           [ok EXCEPT !.payment_type = Null] >>

\* lookups: the regular one, one that lists location id 1 twice, and one
\* that lists location id 2 twice
Lookups ==
    { ZoneLookup,
      Append(ZoneLookup, [LocationID |-> Some(1), Zone |-> Some("A")]),
      <<[LocationID |-> Some(2), Zone |-> Some("B")]>> \o ZoneLookup }

InitClean ==
    /\ trip_file \in Tables(RawMaster, MaxRawRows)
    /\ zone_file \in Lookups
    /\ InitRun

SpecClean == InitClean /\ [][Next]_vars

MaxExtra == 2

\* location id k is picked up ZoneCounts[k] times on 1 January at 08:00
ZoneCounts == <<1, 1, 2, 3, 3, 4, 5, 6, 7, 8, 9>>

BusyDay ==
    Concat([k \in DOMAIN ZoneCounts |->
        [n \in 1..ZoneCounts[k] |-> Ride(1, 8, 60, k, 8, 10, Some(1))]])

ExtraMaster ==
    << Ride(1, 8, 60, 12, 8, 10, Some(1)),
       Ride(1, 8, 60, 13, 8, 10, Some(1)),
       Ride(1, 8, 60, 14, 8, 10, Some(1)),
       Ride(2, 8, 60, 1, 8, 10, Some(1)),
       Ride(1, 9, 60, 2, 8, 10, Some(1)) >>

InitZones ==
    /\ trip_file \in {BusyDay \o x : x \in Tables(ExtraMaster, MaxExtra)}
    /\ zone_file = ZoneLookup
    /\ InitRun

SpecZones == InitZones /\ [][Next]_vars

(***************************************************************************)
(* Properties                                                              *)
(***************************************************************************)
AfterSidebar == pc \notin {"idle", "precompute_summaries", "sidebar"}
AfterPrecompute == pc \notin {"idle", "precompute_summaries"}
AfterKeyMetrics == pc \in {"top_zones", "hourly_fare", "distance_raw",
                           "payment_counts", "heatmap_data", "done"}
AfterTopZones == pc \in {"hourly_fare", "distance_raw", "payment_counts",
                         "heatmap_data", "done"}

\* the filter predicate, stated on a row of the enriched table
Matches(r) ==
    /\ start_date <= Val(r.pickup_date) /\ Val(r.pickup_date) <= end_date
    /\ hour_range[1] <= Val(r.pickup_hour)
    /\ Val(r.pickup_hour) <= hour_range[2]
    /\ ~IsNull(r.payment_type) /\ r.payment_type \in payment_types

\* the rows of the enriched table that the filter predicate selects
matching == SelectSeq(df, LAMBDA r : Matches(r))

Abs(x) == IF x < 0 THEN 0 - x ELSE x

\* x is the floating-point sum of n non-negative values whose exact sum is
\* exact, whatever the order of the additions: n - 1 roundings, each of
\* relative size at most 2^-MantBits
WithinRounding(x, exact, n) ==
    LET k == IF n = 0 THEN 0 ELSE n - 1
    IN  /\ k < Pow2(MantBits)
        /\ Abs(x - exact) * (Pow2(MantBits) - k) <= k * exact

NothingRendered ==
    /\ NothingComputed
    /\ \A i \in DOMAIN page :
          page[i] \in {"Please select at least one payment type.",
                       "No data for the selected filters."}

\* C3 (as amended): when the predicate selects no row, the run ends before
\* any metric or chart is computed, in the "select a payment type" state if
\* the payment-type set is empty and in the "No data" state otherwise; no
\* mean is ever divided by a count of 0.
C3_EmptySelectionStops ==
    /\ pc # "ZeroDivisionError"
    /\ (AfterSidebar /\ matching = <<>>) =>
          /\ pc \in {"check_payment_types", "filter_summary", "check_empty",
                     "stopped_payment", "stopped_empty"}
          /\ NothingRendered
          /\ pc = "stopped_payment" =>
                /\ payment_types = {}
                /\ page = <<"Please select at least one payment type.">>
          /\ pc = "stopped_empty" =>
                /\ payment_types # {}
                /\ page = <<"No data for the selected filters.">>

\* C3 as stated: a run whose predicate selects no row ends in the "No data"
\* state.
C3_EndsInNoData ==
    (AfterSidebar /\ matching = <<>> /\ pc \in Finished) =>
        /\ pc = "stopped_empty"
        /\ page = <<"No data for the selected filters.">>

\* a well-formed selection over a non-empty table that selects nothing
C3_Witness ==
    /\ pc = "stopped_empty"
    /\ df # <<>>
    /\ start_date <= end_date
    /\ payment_types # {}
    /\ matching = <<>>

InvalidSelection ==
    \/ payment_types = {}
    \/ start_date > end_date
    \/ hour_range[1] > hour_range[2]

\* C4 (as amended): an empty payment-type set ends the run with the
\* "select a payment type" warning before anything is filtered or
\* aggregated; an inverted date range is not told apart from a selection
\* without data: it ends in the "No data" state, after the summaries are
\* filtered and before anything is aggregated; the hour slider never
\* yields an inverted range.
C4_InvalidSelectionStops ==
    AfterSidebar =>
        /\ hour_range[1] <= hour_range[2]
        /\ InvalidSelection => NothingRendered
        /\ payment_types = {} =>
              /\ pc \in {"check_payment_types", "stopped_payment"}
              /\ NothingFiltered
        /\ (payment_types # {} /\ start_date > end_date) =>
              pc \in {"check_payment_types", "filter_summary", "check_empty",
                      "stopped_empty"}
        /\ (pc \in Finished /\ payment_types = {}) =>
              page = <<"Please select at least one payment type.">>
        /\ (pc \in Finished /\ payment_types # {} /\ start_date > end_date) =>
              page = <<"No data for the selected filters.">>

\* C4 as stated: every invalid selection ends as an invalid filter.
C4_EndsAsInvalidFilter ==
    (AfterSidebar /\ InvalidSelection /\ pc \in Finished) =>
        /\ pc = "stopped_payment"
        /\ page = <<"Please select at least one payment type.">>

\* an inverted date range with payment types selected, over a table with
\* trips, has run to its end
C4_Witness ==
    /\ pc = "stopped_empty"
    /\ df # <<>>
    /\ start_date > end_date
    /\ payment_types # {}

SameSlot(r, g) ==
    /\ r.pickup_date = g.pickup_date
    /\ r.pickup_hour = g.pickup_hour
    /\ r.payment_type = g.payment_type

\* trip_distance within [0, 25] miles, both ends included
UpTo25Miles(r) ==
    /\ ~IsNull(r.trip_distance)
    /\ 0 <= Val(r.trip_distance) /\ Val(r.trip_distance) <= 25 * 8

C9_SummariesOfLoadedTable ==
    AfterPrecompute =>
        /\ summaries = precompute_summaries(df)
        /\ df = load_data(raw_df, df_zones)
        /\ load_cache = Some(df)
        /\ summaries_cache = Some(summaries)

\* C9 as stated: the summaries a run aggregates are derived from the
\* dataset that is on disk during that run.
C9_SummariesOfCurrentDataset ==
    AfterPrecompute =>
        summaries = precompute_summaries(load_data(trip_file, zone_file))

\* a run that went through to the charts after the trip file had changed
C9_Witness ==
    /\ pc = "done"
    /\ raw_df # trip_file
    /\ load_data(raw_df, df_zones) # load_data(trip_file, zone_file)

\* C10: in a run with a non-empty result the outputs agree on the number of
\* trips: total_trips is the sum of Count over the payment breakdown, the
\* sum of Trips over the heatmap and the sum of Trips over the pickup-zone
\* groups of the filtered zone summary (the null zone included); and the
\* rows fed to the distance histogram are as many as the filtered distance
\* summary counts.
C10_OutputsAgreeOnTrips ==
    pc = "done" =>
        /\ total_trips > 0
        /\ total_trips = SumOver(payment_counts,
                                 [g \in payment_counts |-> g.Count])
        /\ total_trips = ISum([i \in DOMAIN heatmap_data |->
                                  heatmap_data[i].Trips])
        /\ total_trips = SumOver(zone_totals(filtered_zones),
                                 [g \in zone_totals(filtered_zones) |-> g.Trips])
        /\ Len(distance_raw) = SumOver(filtered_distance,
                                       [g \in filtered_distance |-> g.count])

\* a finished run whose selection holds a trip without a zone name, a trip
\* of more than 25 miles and a trip of exactly 25 miles
C10_Witness ==
    /\ pc = "done"
    /\ \E g \in filtered_zones : IsNull(g.PU_Zone)
    /\ \E i \in DOMAIN matching : matching[i].trip_distance = Some(25 * 8)
    /\ Len(distance_raw) < Len(matching)

AfterLoad == pc # "idle"

\* row r of the enriched table carries the values of raw trip w
DerivedFrom(r, w) ==
    /\ ~IsNull(w.tpep_pickup_datetime) /\ ~IsNull(w.tpep_dropoff_datetime)
    /\ r.fare_amount = w.fare_amount
    /\ r.trip_distance = w.trip_distance
    /\ r.payment_type = w.payment_type
    /\ r.pickup_hour = Some(hour(Val(w.tpep_pickup_datetime)))
    /\ r.pickup_date = Some(date(Val(w.tpep_pickup_datetime)))
    /\ r.pickup_day_of_week = Some(weekday(Val(w.tpep_pickup_datetime)))
    /\ Val(r.trip_duration_minutes) * TicksPerSecond
         <= Val(w.tpep_dropoff_datetime) - Val(w.tpep_pickup_datetime)
    /\ Val(w.tpep_dropoff_datetime) - Val(w.tpep_pickup_datetime)
         < (Val(r.trip_duration_minutes) + 1) * TicksPerSecond

\* raw trip w satisfies every cleaning rule
PassesCleaning(w) ==
    /\ ~IsNull(w.tpep_pickup_datetime) /\ ~IsNull(w.tpep_dropoff_datetime)
    /\ ~IsNull(w.PULocationID) /\ ~IsNull(w.DOLocationID)
    /\ ~IsNull(w.fare_amount)
    /\ 0 < Val(w.fare_amount) /\ Val(w.fare_amount) <= 500
    /\ ~IsNull(w.trip_distance) /\ Val(w.trip_distance) > 0
    /\ Val(w.tpep_dropoff_datetime) > Val(w.tpep_pickup_datetime)

\* every row of the loaded table comes from a raw row that satisfies the
\* cleaning rules
CleanRowsOnly ==
    AfterLoad =>
        \A i \in DOMAIN df :
            \E j \in DOMAIN raw_df :
                DerivedFrom(df[i], raw_df[j]) /\ PassesCleaning(raw_df[j])

\* C2: every row of the table load_data returns comes from a raw row with
\* non-null timestamps, location ids and fare, with 0 < fare_amount <= 500,
\* trip_distance > 0 and dropoff after pickup, and so has a strictly
\* positive trip_duration_minutes.
C2_CleanRowsPositiveDuration ==
    /\ CleanRowsOnly
    /\ AfterLoad =>
          \A i \in DOMAIN df : Val(df[i].trip_duration_minutes) > 0

UniqueIds(lookup) ==
    \A a \in DOMAIN lookup : \A b \in DOMAIN lookup :
        lookup[a].LocationID = lookup[b].LocationID => a = b

\* the zone name the lookup gives a location id, null when it gives none
ZoneOf(id, lookup) ==
    IF \E k \in DOMAIN lookup : lookup[k].LocationID = id
    THEN lookup[CHOOSE k \in DOMAIN lookup : lookup[k].LocationID = id].Zone
    ELSE Null

PickupZones(m) == {m[i].PU_Zone : i \in DOMAIN m}
ZoneTrips(m, z) == Cardinality({i \in DOMAIN m : m[i].PU_Zone = z})
ShownZones == {top_zones[i].PU_Zone : i \in DOMAIN top_zones}

\* the number of selected trips picked up in each selected zone
TripsByZone ==
    LET m == matching
    IN  [z \in PickupZones(m) |-> ZoneTrips(m, z)]

\* C5: for a non-empty selection top_zones has min(10, number of distinct
\* pickup zones selected) rows, one zone per row; each row's Trips is the
\* number of selected trips picked up in its zone; and no zone left out
\* has more trips than a zone shown.
C5_TopZonesAreTheBusiest ==
    AfterTopZones =>
        LET trips == TripsByZone
            shown == ShownZones
        IN  /\ Len(top_zones) = Min(10, Cardinality(DOMAIN trips))
            /\ Cardinality(shown) = Len(top_zones)
            /\ \A i \in DOMAIN top_zones :
                  /\ top_zones[i].PU_Zone \in DOMAIN trips
                  /\ top_zones[i].Trips = trips[top_zones[i].PU_Zone]
            /\ \A z \in (DOMAIN trips) \ shown :
                  \A i \in DOMAIN top_zones : trips[z] <= top_zones[i].Trips

\* more than ten zones were selected, part of the table was filtered out,
\* and a zone left out has as many trips as the last zone shown
C5_Witness ==
    /\ pc = "done"
    /\ Len(top_zones) = 10
    /\ LET trips == TripsByZone
       IN  /\ Cardinality(DOMAIN trips) > 10
           /\ \E z \in (DOMAIN trips) \ ShownZones :
                 trips[z] = top_zones[Len(top_zones)].Trips
    /\ Len(matching) < Len(df)

\* the place of a zone name in alphabetical order, null first
NameRank(z) ==
    IF IsNull(z) THEN 0
    ELSE CHOOSE k \in DOMAIN ZoneNames : ZoneNames[k] = Val(z)

RankedByTripsThenName ==
    LET trips == TripsByZone
        totals == {[PU_Zone |-> z, Trips |-> trips[z]] : z \in DOMAIN trips}
        ranked == CHOOSE q \in SortedByKey(totals,
                      [g \in totals |-> NameRank(g.PU_Zone)
                                        - g.Trips * (Len(ZoneNames) + 1)]) : TRUE
    IN  SubSeq(ranked, 1, Min(10, Len(ranked)))

\* C6: top_zones is ordered by trip count descending, ties by zone name
\* ascending, and among zones with equal counts the ones that enter the top
\* ten are the first by name.
C6_TiesByZoneName ==
    AfterTopZones => top_zones = RankedByTripsThenName

====
